---- MODULE Spec2Model ----
(***************************************************************************)
(* Model of auto_ratio.py: analyze_level walks the portals of a Geometry   *)
(* Dash level string and integrates the time spent per gamemode and per    *)
(* speed.                                                                  *)
(*                                                                         *)
(* Tokens of the level string are strings.  A float is an integer or NaN.  *)
(* A time is kept exactly: it is a function from rate to the distance      *)
(* travelled at that rate, standing for the sum of distance / rate.        *)
(***************************************************************************)
EXTENDS Integers, Sequences, FiniteSets, TLC

VARIABLES
  pc,                \* where analyze_level is: "start", "objects", "integrate",
                     \* "done", "returned", or the exception that ended it
  err,               \* the expression that raised, "" while none did
  current_gamemode, current_speed,
  n_segments,        \* object segments of the level string consumed so far
  portals, max_x,
  top_x,             \* history: {largest comparable x_pos seen}, {} if none
  mode_times, speed_times, current_x, total_time,
  idx,               \* position of the integration loop in portals
  rendered,          \* the keys the report printed a percentage for
  level_objs         \* the object segments of a level given whole, <<>> when
                     \* the segments are drawn one by one

\* parse_object, call by call over the segments p_segs
VARIABLES
  p_pc,              \* "idle", "loop" (inside a call), "off"
  p_segs, p_k,       \* the segments to parse, the number of the current one
  p_i,               \* the loop variable i (1-based)
  obj,               \* the dict the call is filling
  p_objs             \* the dicts the calls returned

\* the analysis, the calls of parse_object
avars == <<pc, err, current_gamemode, current_speed, n_segments, portals, max_x,
           top_x, mode_times, speed_times, current_x, total_time, idx, rendered,
           level_objs>>
pvars == <<p_pc, p_segs, p_k, p_i, obj, p_objs>>

\* main and decode_level
VARIABLES
  m_pc,              \* "main", "decode_level", "b64decode", "decompress",
                     \* "decoded" (back in main), "analyze", "exit", "off"
  origin,            \* history: how the payload was made, and from which text
  raw_data,          \* the payload, <<>> also when it is None
  decode_called,     \* decode_level was called
  data, decoded,     \* the locals of decode_level
  d_exc,             \* the exception raised inside decode_level, "" if none
  result,            \* what decode_level returned: None or a text
  analyzed           \* the arguments analyze_level was called with

mvars == <<m_pc, origin, raw_data, decode_called, data, decoded, d_exc, result, analyzed>>

vars == <<avars, pvars, mvars>>

(* ---------------- bounds ---------------- *)
MaxObjs == 3
MaxX == 2
MaxTokens == 5
MaxText == 3

(* ---------------- tables of the program ---------------- *)
PORTAL_GAMEMODES ==
  12 :> "Cube" @@ 13 :> "Ship" @@ 47 :> "Ball" @@ 111 :> "UFO" @@
  660 :> "Wave" @@ 745 :> "Robot" @@ 1331 :> "Spider" @@ 1933 :> "Swing"

PORTAL_SPEEDS ==
  200 :> "0.5x" @@ 201 :> "1x" @@ 202 :> "2x" @@ 203 :> "3x" @@ 1334 :> "4x"

\* rates in hundredths of a unit per second (251.16, 311.58, 387.42, 468.0, 576.0)
SPEED_VALUES ==
  "Slow" :> 25116 @@ "Normal" :> 31158 @@ "Fast" :> 38742 @@
  "Very Fast" :> 46800 @@ "Faster" :> 57600

PORTAL_NAME_TO_SPEED_NAME ==
  "0.5x" :> "Slow" @@ "1x" :> "Normal" @@ "2x" :> "Fast" @@
  "3x" :> "Very Fast" @@ "4x" :> "Faster"

SPEED_NAME_TO_PORTAL_NAME ==
  [v \in {PORTAL_NAME_TO_SPEED_NAME[k] : k \in DOMAIN PORTAL_NAME_TO_SPEED_NAME} |->
     CHOOSE k \in DOMAIN PORTAL_NAME_TO_SPEED_NAME : PORTAL_NAME_TO_SPEED_NAME[k] = v]

START_GAMEMODES ==
  0 :> "Cube" @@ 1 :> "Ship" @@ 2 :> "Ball" @@ 3 :> "UFO" @@
  4 :> "Wave" @@ 5 :> "Robot" @@ 6 :> "Spider" @@ 7 :> "Swing Copter"

\* mutant: the start table names the speeds as the portals do
START_SPEEDS_PortalNames ==
  0 :> "1x" @@ 1 :> "0.5x" @@ 2 :> "2x" @@ 3 :> "3x" @@ 4 :> "4x"

START_SPEEDS ==
  0 :> "Normal" @@ 1 :> "Slow" @@ 2 :> "Fast" @@ 3 :> "Very Fast" @@ 4 :> "Faster"

\* dict.get(key, default)
Get(d, key, default) == IF key \in DOMAIN d THEN d[key] ELSE default

(* ---------------- tokens, int() and float() ---------------- *)
\* the decimal tokens the inputs are drawn from, with the integer they spell
IntLiteral ==
  "-1" :> (0 - 1) @@ "0" :> 0 @@ "1" :> 1 @@ "2" :> 2 @@ "3" :> 3 @@ "4" :> 4 @@
  "7" :> 7 @@ "9" :> 9 @@ "13" :> 13 @@ "22" :> 22 @@ "47" :> 47 @@
  "200" :> 200 @@ "201" :> 201

\* float('nan'): compares false with every float, itself included
NaN == 0 - 1000

\* int(token) raises ValueError unless the token spells an integer
IntOk(tok) == tok \in DOMAIN IntLiteral
IntVal(tok) == IntLiteral[tok]

\* float(token) accepts the integers and "nan", raises ValueError otherwise
FloatOk(tok) == tok \in DOMAIN IntLiteral \/ tok = "nan"
FloatVal(tok) == IF tok = "nan" THEN NaN ELSE IntLiteral[tok]

\* a < b and a > b on floats
FloatLT(a, b) == a # NaN /\ b # NaN /\ a < b
FloatGT(a, b) == FloatLT(b, a)

\* mutant: the latest position instead of the largest
Max2_Latest(a, b) == b

\* max(a, b) of Python: b only when b > a
Max2(a, b) == IF FloatGT(b, a) THEN b ELSE a

(* ---------------- times ---------------- *)
Rates == {SPEED_VALUES[s] : s \in DOMAIN SPEED_VALUES}

\* 0.0
TimeZero == [r \in Rates |-> 0]

\* distance / speed_val
Duration(distance, speed_val) ==
  [r \in Rates |-> IF r = speed_val THEN distance ELSE 0]

\* t + d
TimeAdd(t, d) == [r \in Rates |-> t[r] + d[r]]

\* t > 0 and t == 0 (no distance is negative: see IntegrateStep)
TimePositive(t) == \E r \in Rates : t[r] > 0
TimeIsZero(t) == \A r \in Rates : t[r] = 0

RECURSIVE TimeSum(_, _)
\* the sum of the times of the keys ks of the dict d
TimeSum(d, ks) ==
  IF ks = {} THEN TimeZero
  ELSE LET k == CHOOSE k \in ks : TRUE
       IN TimeAdd(d[k], TimeSum(d, ks \ {k}))

(* ---------------- parse_object and the header dict ---------------- *)
RECURSIVE ParsePairs(_, _, _)
\* for i in range(0, len(parts) - 1, 2), from pair i on (1-based), into obj
ParsePairs(parts, i, o) ==
  IF i + 1 > Len(parts) THEN o
  ELSE IF IntOk(parts[i])
       THEN ParsePairs(parts, i + 2, (IntVal(parts[i]) :> parts[i + 1]) @@ o)
       ELSE ParsePairs(parts, i + 2, o)

\* parse_object(obj_str), obj_str given as its tokens obj_str.split(',')
parse_object(parts) == ParsePairs(parts, 1, <<>>)

RECURSIVE HeaderPairs(_, _, _)
HeaderPairs(header_parts, i, d) ==
  IF i + 1 > Len(header_parts) THEN d
  ELSE HeaderPairs(header_parts, i + 2, (header_parts[i] :> header_parts[i + 1]) @@ d)

\* header_dict: the pairs of the header with their keys kept as strings
header_dict_of(header_parts) == HeaderPairs(header_parts, 1, <<>>)

(* ---------------- portals.sort(key=lambda p: p['x']) ---------------- *)
\* list.sort on a list of fewer than 64 items: the leading run is found (and
\* reversed when strictly descending), the rest is inserted by binary search.
\* Keys are compared with < only.
KeyLT(p, q) == FloatLT(p.x, q.x)

RECURSIVE RunEnd(_, _, _)
\* count_run: the last index of the run that starts at a[1], a[2]
RunEnd(a, i, descending) ==
  IF i > Len(a) THEN i - 1
  ELSE IF KeyLT(a[i], a[i - 1]) = descending THEN RunEnd(a, i + 1, descending)
       ELSE i - 1

Reverse(a) == [i \in 1..Len(a) |-> a[Len(a) + 1 - i]]

RECURSIVE BinarySearch_Left(_, _, _, _)
\* mutant: the pivot goes before the items equal to it
BinarySearch_Left(a, pivot, l, r) ==
  IF l >= r THEN l
  ELSE LET p == l + ((r - l) \div 2)
       IN IF ~KeyLT(a[p], pivot) THEN BinarySearch_Left(a, pivot, l, p)
          ELSE BinarySearch_Left(a, pivot, p + 1, r)

RECURSIVE BinarySearch(_, _, _, _)
\* the index in l..r where pivot goes: after every item that is not greater
BinarySearch(a, pivot, l, r) ==
  IF l >= r THEN l
  ELSE LET p == l + ((r - l) \div 2)
       IN IF KeyLT(pivot, a[p]) THEN BinarySearch(a, pivot, l, p)
          ELSE BinarySearch(a, pivot, p + 1, r)

RECURSIVE BinarySort(_, _)
\* binarysort: a[1..start-1] is the run, a[start..] is inserted item by item
BinarySort(a, start) ==
  IF start > Len(a) THEN a
  ELSE LET pivot == a[start]
           l == BinarySearch(a, pivot, 1, start)
           moved == [i \in 1..Len(a) |->
                       IF i < l \/ i > start THEN a[i]
                       ELSE IF i = l THEN pivot ELSE a[i - 1]]
       IN BinarySort(moved, start + 1)

ListSort(a) ==
  IF Len(a) < 2 THEN a
  ELSE LET descending == KeyLT(a[2], a[1])
           n == RunEnd(a, 3, descending)
           run == SubSeq(a, 1, n)
           b == (IF descending THEN Reverse(run) ELSE run) \o SubSeq(a, n + 1, Len(a))
       IN BinarySort(b, n + 1)

(* ---------------- inputs ---------------- *)
\* the token that spells the integer n
Lit(n) == CHOOSE t \in DOMAIN IntLiteral : IntLiteral[t] = n

\* an optional key,value pair of a segment
Opt(key, vals) == {<<>>} \cup {<<key, v>> : v \in vals}

\* header segments: start gamemode kA2, start speed kA4, platformer flag kA22,
\* an integer key 22, and possibly a trailing token without a value
HeaderStrs ==
  { IF h = <<>> THEN <<"">> ELSE h :
      h \in { a \o b \o c \o d \o t :
                a \in Opt("kA2", {"0", "1", "7", "9", "abc"}),
                b \in Opt("kA4", {"0", "1", "2", "3", "4", "9", "abc"}),
                c \in Opt("kA22", {"1", "abc"}),
                d \in Opt("22", {"0", "abc"}),
                t \in {<<>>, <<"kS38">>} } }

\* type ids: a gamemode portal, a speed portal, an object that is no portal,
\* and a value that is no integer
IdTokens == {"47", "200", "1", "abc"}

\* positions: -1 .. MaxX, nan, and a value that is no number
PosTokens == {Lit(n) : n \in (0 - 1)..MaxX} \cup {"nan", "abc"}

\* object segments: well formed ones, and ones with a missing key, an odd
\* token count, a key that is no integer, or nothing at all
ObjStrs ==
  {<<"1", i, "2", x>> : i \in IdTokens, x \in PosTokens}
  \cup {<<"2", x, "1", "47">> : x \in {"1", "nan"}}
  \cup {<<"1", "47">>, <<"2", "1">>, <<"1", "47", "2">>, <<"">>,
        <<"abc", "0", "1", "200", "2", "1">>, <<"1", "47", "2", "1", "9">>}

(* ---------------- analyze_level ---------------- *)
Init ==
  /\ pc = "start"
  /\ err = ""
  /\ current_gamemode = "unset"
  /\ current_speed = "unset"
  /\ n_segments = 0
  /\ portals = <<>>
  /\ max_x = 0
  /\ top_x = {}
  /\ mode_times = <<>>
  /\ speed_times = <<>>
  /\ current_x = 0
  /\ total_time = TimeZero
  /\ idx = 0
  /\ rendered = [modes |-> {}, speeds |-> {}]
  /\ level_objs = <<>>
  /\ p_pc = "off"
  /\ p_segs = <<>>
  /\ p_k = 0
  /\ p_i = 0
  /\ obj = <<>>
  /\ p_objs = <<>>
  /\ m_pc = "off"
  /\ origin = [kind |-> "none", text |-> <<>>]
  /\ raw_data = <<>>
  /\ decode_called = FALSE
  /\ data = <<>>
  /\ decoded = <<>>
  /\ d_exc = ""
  /\ result = [kind |-> "unset", text |-> <<>>]
  /\ analyzed = <<>>

\* raise: the analysis ends with the exception, the rest is left as it is
Raise(exception, expression) ==
  /\ pc' = exception
  /\ err' = expression
  /\ UNCHANGED <<current_gamemode, current_speed, n_segments, portals, max_x,
                 top_x, mode_times, speed_times, current_x, total_time, idx, rendered>>

\* if not level_string: return
AnalyzeEmpty ==
  /\ pc = "start"
  /\ pc' = "returned"
  /\ UNCHANGED <<err, current_gamemode, current_speed, n_segments, portals, max_x,
                 top_x, mode_times, speed_times, current_x, total_time, idx, rendered>>
  /\ UNCHANGED <<level_objs, pvars, mvars>>

\* int(d.get(key, 0)) can be evaluated
CodeOk(d, key) == key \notin DOMAIN d \/ IntOk(d[key])
\* int(d.get(key, 0))
Code(d, key) == IF key \in DOMAIN d THEN IntVal(d[key]) ELSE 0

\* the header: start gamemode and start speed, the platformer warning
HeaderBody(header_parts) ==
       LET header == parse_object(header_parts)
           header_dict == header_dict_of(header_parts)
       IN IF ~CodeOk(header, 22) THEN Raise("ValueError", "header[22]")
          ELSE IF ~CodeOk(header_dict, "kA2") THEN Raise("ValueError", "kA2")
          ELSE IF ~CodeOk(header_dict, "kA4") THEN Raise("ValueError", "kA4")
          ELSE IF ~CodeOk(header_dict, "kA22") THEN Raise("ValueError", "kA22")
          ELSE /\ pc' = "objects"
               /\ current_gamemode' = Get(START_GAMEMODES, Code(header_dict, "kA2"), "Cube")
               /\ current_speed' = Get(START_SPEEDS, Code(header_dict, "kA4"), "Normal")
               /\ UNCHANGED <<err, n_segments, portals, max_x, top_x, mode_times,
                              speed_times, current_x, total_time, idx, rendered>>

\* the header is any of HeaderStrs
ParseHeader ==
  /\ pc = "start"
  /\ \E header_parts \in HeaderStrs : HeaderBody(header_parts)
  /\ UNCHANGED <<level_objs, pvars, mvars>>

\* the portal event of an object, <<>> if the object is no portal
PortalOf(obj_id, x_pos) ==
  IF obj_id \in DOMAIN PORTAL_GAMEMODES
  THEN <<[x |-> x_pos, type |-> "gamemode", value |-> PORTAL_GAMEMODES[obj_id]]>>
  ELSE IF obj_id \in DOMAIN PORTAL_SPEEDS
       THEN <<[x |-> x_pos, type |-> "speed", value |-> PORTAL_SPEEDS[obj_id]]>>
       ELSE <<>>

\* the largest comparable position seen, as the history variable keeps it
TopWith(top, x_pos) ==
  IF x_pos = NaN THEN top
  ELSE IF top = {} THEN {x_pos}
       ELSE LET m == CHOOSE m \in top : TRUE
            IN {IF x_pos > m THEN x_pos ELSE m}

\* mutant: and instead of or
Droppable_Both(o) == 1 \notin DOMAIN o /\ 2 \notin DOMAIN o

\* if 1 not in obj or 2 not in obj: continue
Droppable(o) == 1 \notin DOMAIN o \/ 2 \notin DOMAIN o

\* one pass of the loop over the object segments, for the segment obj_str
ObjectBody(obj_str) ==
       LET o == parse_object(obj_str)
           skip == /\ n_segments' = n_segments + 1
                   /\ UNCHANGED <<pc, err, current_gamemode, current_speed, portals,
                                  max_x, top_x, mode_times, speed_times, current_x,
                                  total_time, idx, rendered>>
       IN IF obj_str = <<"">> THEN skip
          ELSE IF Droppable(o) THEN skip
          ELSE IF 1 \notin DOMAIN o THEN Raise("KeyError", "obj[1]")
          ELSE IF 2 \notin DOMAIN o THEN Raise("KeyError", "obj[2]")
          ELSE IF ~IntOk(o[1]) THEN Raise("ValueError", "obj_id")
          ELSE IF ~FloatOk(o[2]) THEN Raise("ValueError", "x_pos")
          ELSE LET obj_id == IntVal(o[1])
                   x_pos == FloatVal(o[2])
               IN /\ max_x' = Max2(max_x, x_pos)
                  /\ top_x' = TopWith(top_x, x_pos)
                  /\ portals' = portals \o PortalOf(obj_id, x_pos)
                  /\ n_segments' = n_segments + 1
                  /\ UNCHANGED <<pc, err, current_gamemode, current_speed, mode_times,
                                 speed_times, current_x, total_time, idx, rendered>>

\* the next segment is any of ObjStrs
ParseObjectStep ==
  /\ pc = "objects"
  /\ level_objs = <<>>
  /\ n_segments < MaxObjs
  /\ \E obj_str \in ObjStrs : ObjectBody(obj_str)
  /\ UNCHANGED <<level_objs, pvars, mvars>>

\* the next segment is the next one of the level given whole
ReadObjectStep ==
  /\ pc = "objects"
  /\ n_segments < Len(level_objs)
  /\ ObjectBody(level_objs[n_segments + 1])
  /\ UNCHANGED <<level_objs, pvars, mvars>>

\* the values of a dict, as the keys of the accumulators
Values(d) == {d[k] : k \in DOMAIN d}

\* after the last segment: sort, zero the accumulators, append the end marker
SortPortals ==
  /\ pc = "objects"
  /\ n_segments >= Len(level_objs)
  /\ pc' = "integrate"
  /\ portals' = Append(ListSort(portals), [x |-> max_x, type |-> "end", value |-> "None"])
  /\ mode_times' = [mode \in Values(PORTAL_GAMEMODES) |-> TimeZero]
  /\ speed_times' = [speed \in Values(PORTAL_SPEEDS) |-> TimeZero]
  /\ current_x' = 0
  /\ total_time' = TimeZero
  /\ idx' = 1
  /\ UNCHANGED <<err, current_gamemode, current_speed, n_segments, max_x, top_x, rendered>>
  /\ UNCHANGED <<level_objs, pvars, mvars>>

\* Update state: the gamemode and the speed after the event p
\* mutant: the state update sits inside the branch that times the segment
GamemodeAfter_IfAdvanced(p, gamemode) ==
  IF p.type = "gamemode" /\ FloatGT(p.x, current_x) THEN p.value ELSE gamemode

GamemodeAfter(p, gamemode) == IF p.type = "gamemode" THEN p.value ELSE gamemode

SpeedAfter(p, speed) ==
  IF p.type = "speed" THEN Get(PORTAL_NAME_TO_SPEED_NAME, p.value, "Normal") ELSE speed

UpdateState(p) ==
  /\ current_gamemode' = GamemodeAfter(p, current_gamemode)
  /\ current_speed' = SpeedAfter(p, current_speed)

\* mode_times[current_gamemode] += duration, speed_times[speed_times_key] += duration
Credit(times, key, duration) == [times EXCEPT ![key] = TimeAdd(@, duration)]

\* mutant: = instead of +=
TotalAfter_Assigned(total, duration) == duration

\* total_time += duration
TotalAfter(total, duration) == TimeAdd(total, duration)

\* one pass of the loop over the events
IntegrateStep ==
  /\ pc = "integrate"
  /\ idx <= Len(portals)
  /\ UNCHANGED <<level_objs, pvars, mvars>>
  /\ LET p == portals[idx]
         next_x == p.x
     IN IF FloatGT(next_x, current_x)
        THEN LET distance == next_x - current_x
                 speed_times_key == Get(SPEED_NAME_TO_PORTAL_NAME, current_speed, "1x")
             IN IF current_speed \notin DOMAIN SPEED_VALUES
                THEN Raise("KeyError", "SPEED_VALUES[current_speed]")
                ELSE IF SPEED_VALUES[current_speed] = 0
                THEN Raise("ZeroDivisionError", "distance / speed_val")
                ELSE IF current_gamemode \notin DOMAIN mode_times
                THEN Raise("KeyError", "mode_times[current_gamemode]")
                ELSE IF speed_times_key \notin DOMAIN speed_times
                THEN Raise("KeyError", "speed_times[speed_times_key]")
                ELSE LET duration == Duration(distance, SPEED_VALUES[current_speed])
                     IN /\ mode_times' = Credit(mode_times, current_gamemode, duration)
                        /\ speed_times' = Credit(speed_times, speed_times_key, duration)
                        /\ total_time' = TotalAfter(total_time, duration)
                        /\ current_x' = next_x
                        /\ UpdateState(p)
                        /\ idx' = idx + 1
                        /\ UNCHANGED <<pc, err, n_segments, portals, max_x, top_x, rendered>>
        ELSE /\ UpdateState(p)
             /\ idx' = idx + 1
             /\ UNCHANGED <<pc, err, n_segments, portals, max_x, top_x, mode_times,
                            speed_times, current_x, total_time, rendered>>

\* mutant: every entry is divided by total_time
Printed_All(d) == DOMAIN d

\* the keys of the accumulator d the report prints a percentage for
Printed(d) == {k \in DOMAIN d : TimePositive(d[k])}

\* Output Results: every entry with time > 0 is divided by total_time
Render ==
  /\ pc = "integrate"
  /\ idx > Len(portals)
  /\ UNCHANGED <<level_objs, pvars, mvars>>
  /\ IF Printed(mode_times) \cup Printed(speed_times) # {} /\ TimeIsZero(total_time)
     THEN Raise("ZeroDivisionError", "time / total_time")
     ELSE /\ pc' = "done"
          /\ rendered' = [modes |-> Printed(mode_times), speeds |-> Printed(speed_times)]
          /\ UNCHANGED <<err, current_gamemode, current_speed, n_segments, portals,
                         max_x, top_x, mode_times, speed_times, current_x, total_time, idx>>

Next ==
  \/ AnalyzeEmpty
  \/ ParseHeader
  \/ ParseObjectStep
  \/ SortPortals
  \/ IntegrateStep
  \/ Render

Spec == Init /\ [][Next]_vars

TypeOK ==
  /\ pc \in {"start", "objects", "integrate", "done", "returned",
              "ValueError", "KeyError", "ZeroDivisionError"}
  /\ n_segments \in 0..MaxObjs
  /\ max_x \in 0..MaxX

(* ---------------- characters, bytes and base64 ---------------- *)
\* A character is its ASCII code, a byte is 0..255, a str or bytes value is a
\* sequence of them.
Ascii ==
  "k" :> 107 @@ "S" :> 83 @@ "A" :> 65 @@ "," :> 44 @@ "1" :> 49 @@ "!" :> 33 @@
  "+" :> 43 @@ "/" :> 47 @@ "-" :> 45 @@ "_" :> 95 @@ "=" :> 61

\* the character of the sextet v in the standard alphabet A-Z a-z 0-9 + /
B64Char(v) ==
  IF v < 26 THEN Ascii["A"] + v
  ELSE IF v < 52 THEN Ascii["A"] + 32 + (v - 26)
  ELSE IF v < 62 THEN Ascii["1"] - 1 + (v - 52)
  ELSE IF v = 62 THEN Ascii["+"] ELSE Ascii["/"]

\* the sextet of a character of the standard alphabet, -1 for any other
Sextet(c) ==
  IF \E v \in 0..63 : B64Char(v) = c
  THEN CHOOSE v \in 0..63 : B64Char(v) = c
  ELSE 0 - 1

\* base64.urlsafe_b64encode: three bytes make four sextets, the last group
\* is padded with =; + and / are written - and _
UrlChar(v) ==
  IF v = 62 THEN Ascii["-"] ELSE IF v = 63 THEN Ascii["_"] ELSE B64Char(v)

RECURSIVE urlsafe_b64encode(_)
urlsafe_b64encode(b) ==
  IF Len(b) = 0 THEN <<>>
  ELSE IF Len(b) = 1
  THEN <<UrlChar(b[1] \div 4), UrlChar((b[1] % 4) * 16), Ascii["="], Ascii["="]>>
  ELSE IF Len(b) = 2
  THEN <<UrlChar(b[1] \div 4), UrlChar((b[1] % 4) * 16 + b[2] \div 16),
         UrlChar((b[2] % 16) * 4), Ascii["="]>>
  ELSE <<UrlChar(b[1] \div 4), UrlChar((b[1] % 4) * 16 + b[2] \div 16),
         UrlChar((b[2] % 16) * 4 + b[3] \div 64), UrlChar(b[3] % 64)>>
       \o urlsafe_b64encode(SubSeq(b, 4, Len(b)))

\* s.rstrip('=')
RECURSIVE StripPadding(_)
StripPadding(s) ==
  IF s # <<>> /\ s[Len(s)] = Ascii["="] THEN StripPadding(SubSeq(s, 1, Len(s) - 1))
  ELSE s

\* data.replace('-', '+').replace('_', '/')
ReplaceUrlSafe(s) ==
  [i \in 1..Len(s) |->
     IF s[i] = Ascii["-"] THEN Ascii["+"]
     ELSE IF s[i] = Ascii["_"] THEN Ascii["/"] ELSE s[i]]

\* mutant: the padding is not restored
FixPadding_None(s) == s

\* padding = len(data) % 4; if padding: data += '=' * (4 - padding)
FixPadding(s) ==
  LET padding == Len(s) % 4
  IN IF padding # 0 THEN s \o [i \in 1..(4 - padding) |-> Ascii["="]] ELSE s

RECURSIVE A2B(_, _, _, _, _, _)
\* base64.b64decode(data) without validation: characters outside the
\* alphabet are passed over, a pad that completes a group ends the decoding,
\* an incomplete last group is an error (binascii.Error)
A2B(s, i, quad_pos, leftchar, pads, out) ==
  IF i > Len(s)
  THEN IF quad_pos = 0 THEN [ok |-> TRUE, bytes |-> out]
       ELSE [ok |-> FALSE, bytes |-> <<>>]
  ELSE IF s[i] = Ascii["="]
  THEN IF quad_pos >= 2 /\ quad_pos + pads + 1 >= 4
       THEN [ok |-> TRUE, bytes |-> out]
       ELSE A2B(s, i + 1, quad_pos, leftchar,
                IF quad_pos >= 2 THEN pads + 1 ELSE pads, out)
  ELSE LET v == Sextet(s[i])
       IN IF v < 0 THEN A2B(s, i + 1, quad_pos, leftchar, pads, out)
          ELSE IF quad_pos = 0 THEN A2B(s, i + 1, 1, v, 0, out)
          ELSE IF quad_pos = 1
          THEN A2B(s, i + 1, 2, v % 16, 0, Append(out, leftchar * 4 + v \div 16))
          ELSE IF quad_pos = 2
          THEN A2B(s, i + 1, 3, v % 4, 0, Append(out, leftchar * 16 + v \div 4))
          ELSE A2B(s, i + 1, 0, 0, 0, Append(out, leftchar * 64 + v))

b64decode(s) == A2B(s, 1, 0, 0, 0, <<>>)

(* ---------------- analyze_level on a level given whole ---------------- *)
\* headers: the defaults (Cube, Normal), and Ship with the Fast speed
LevelHeaders == {<<"">>, <<"kA2", "1", "kA4", "2">>}

\* object segments: two gamemode portals and two speed portals at the same
\* position, a portal further on, an object that is no portal, a portal at a
\* negative position, one at nan, and two records that lack a key
LevelSegs ==
  {<<"1", "47", "2", "1">>, <<"1", "13", "2", "1">>,
   <<"1", "200", "2", "1">>, <<"1", "201", "2", "1">>,
   <<"1", "47", "2", "2">>, <<"1", "1", "2", "2">>,
   <<"1", "13", "2", "-1">>, <<"1", "47", "2", "nan">>,
   <<"1", "abc">>, <<"2", "1">>}

RECURSIVE SegSeqs(_)
\* the levels of n object segments
SegSeqs(n) ==
  IF n = 0 THEN {<<>>}
  ELSE {Append(q, g) : q \in SegSeqs(n - 1), g \in LevelSegs}

Levels == UNION {SegSeqs(n) : n \in 0..MaxObjs}

InitLevel ==
  /\ pc = "start"
  /\ err = ""
  /\ current_gamemode = "unset"
  /\ current_speed = "unset"
  /\ n_segments = 0
  /\ portals = <<>>
  /\ max_x = 0
  /\ top_x = {}
  /\ mode_times = <<>>
  /\ speed_times = <<>>
  /\ current_x = 0
  /\ total_time = TimeZero
  /\ idx = 0
  /\ rendered = [modes |-> {}, speeds |-> {}]
  /\ level_objs \in Levels
  /\ p_pc = "off"
  /\ p_segs = <<>>
  /\ p_k = 0
  /\ p_i = 0
  /\ obj = <<>>
  /\ p_objs = <<>>
  /\ m_pc = "off"
  /\ origin = [kind |-> "none", text |-> <<>>]
  /\ raw_data = <<>>
  /\ decode_called = FALSE
  /\ data = <<>>
  /\ decoded = <<>>
  /\ d_exc = ""
  /\ result = [kind |-> "unset", text |-> <<>>]
  /\ analyzed = <<>>

\* the header is one of LevelHeaders
ReadHeader ==
  /\ pc = "start"
  /\ \E header_parts \in LevelHeaders : HeaderBody(header_parts)
  /\ UNCHANGED <<level_objs, pvars, mvars>>

NextLevel ==
  \/ ReadHeader
  \/ ReadObjectStep
  \/ SortPortals
  \/ IntegrateStep
  \/ Render

SpecLevel == InitLevel /\ [][NextLevel]_vars

(* ---------------- parse_object, step by step ---------------- *)
\* the tokens of the segments: two keys that are integers, a value, and a
\* token that is no integer
ParseTokens == {"1", "2", "47", "abc"}

RECURSIVE TokenSeqs(_)
\* the segments of n tokens
TokenSeqs(n) ==
  IF n = 0 THEN {<<>>}
  ELSE {Append(q, t) : q \in TokenSeqs(n - 1), t \in ParseTokens}

ParseSegs == UNION {TokenSeqs(n) : n \in 1..MaxTokens}

\* segments with nothing wrong, parsed before or after the segment under test
WellFormedSegs == {<<"1", "47", "2", "1">>, <<"2", "2">>}

InitParse ==
  /\ pc = "off"
  /\ err = ""
  /\ current_gamemode = "unset"
  /\ current_speed = "unset"
  /\ n_segments = 0
  /\ portals = <<>>
  /\ max_x = 0
  /\ top_x = {}
  /\ mode_times = <<>>
  /\ speed_times = <<>>
  /\ current_x = 0
  /\ total_time = TimeZero
  /\ idx = 0
  /\ rendered = [modes |-> {}, speeds |-> {}]
  /\ level_objs = <<>>
  /\ p_pc = "idle"
  /\ p_segs \in {<<q, w>> : q \in ParseSegs, w \in WellFormedSegs}
                \cup {<<w, q>> : q \in ParseSegs, w \in WellFormedSegs}
  /\ p_k = 0
  /\ p_i = 0
  /\ obj = <<>>
  /\ p_objs = <<>>
  /\ m_pc = "off"
  /\ origin = [kind |-> "none", text |-> <<>>]
  /\ raw_data = <<>>
  /\ decode_called = FALSE
  /\ data = <<>>
  /\ decoded = <<>>
  /\ d_exc = ""
  /\ result = [kind |-> "unset", text |-> <<>>]
  /\ analyzed = <<>>

\* mutant: range(0, len(parts), 2)
LoopBound_Len(parts) == Len(parts)

\* the stop of range(0, len(parts) - 1, 2): the loop runs while the 0-based
\* i is below it, that is while the 1-based p_i is at most it
LoopBound(parts) == Len(parts) - 1

\* parts = obj_str.split(','); obj = {}
ParseCall ==
  /\ p_pc = "idle"
  /\ p_k < Len(p_segs)
  /\ p_k' = p_k + 1
  /\ obj' = <<>>
  /\ p_i' = 1
  /\ p_pc' = "loop"
  /\ UNCHANGED <<p_segs, p_objs, avars, mvars>>

\* one pass of the loop: try: key = int(parts[i]); obj[key] = parts[i+1]
\*                       except ValueError: continue
ParsePair ==
  /\ p_pc = "loop"
  /\ p_i <= LoopBound(p_segs[p_k])
  /\ LET parts == p_segs[p_k]
     IN IF ~IntOk(parts[p_i])
        THEN /\ p_i' = p_i + 2
             /\ UNCHANGED <<p_pc, obj>>
        ELSE IF p_i + 1 > Len(parts)
        THEN /\ p_pc' = "IndexError"
             /\ UNCHANGED <<p_i, obj>>
        ELSE /\ obj' = (IntVal(parts[p_i]) :> parts[p_i + 1]) @@ obj
             /\ p_i' = p_i + 2
             /\ UNCHANGED p_pc
  /\ UNCHANGED <<p_segs, p_k, p_objs, avars, mvars>>

\* return obj
ParseReturn ==
  /\ p_pc = "loop"
  /\ p_i > LoopBound(p_segs[p_k])
  /\ p_objs' = Append(p_objs, obj)
  /\ p_pc' = "idle"
  /\ UNCHANGED <<p_segs, p_k, p_i, obj, avars, mvars>>

NextParse ==
  \/ ParseCall
  \/ ParsePair
  \/ ParseReturn

SpecParse == InitParse /\ [][NextParse]_vars

(* ---------------- gzip and utf-8 ---------------- *)
\* A gzip member is a header (the magic bytes 1f 8b and the method byte 8),
\* a deflate stream, and a trailer (a checksum and the length of the text).
\* The deflate stream is kept abstract: the bytes of the text, which are
\* 1..254, then the end-of-stream marker; EndOfStream and BadCode are bytes
\* no text holds.
GzipHeader == <<31, 139, 8>>

EndOfStream == 0

BadCode == 255

RECURSIVE ByteSum(_)
ByteSum(b) == IF b = <<>> THEN 0 ELSE b[1] + ByteSum(Tail(b))

\* the checksum of the trailer, kept to one byte: the complement of the sum
Crc(b) == 255 - (ByteSum(b) % 256)

gzip_compress(b) == GzipHeader \o b \o <<EndOfStream>> \o <<Crc(b), Len(b) % 256>>

RECURSIVE Inflate(_, _)
\* the deflate stream of d from position i: the text, and where the stream
\* ended ("eof": the marker was read, "short": the data ran out before it,
\* "error": an invalid code, zlib.error)
Inflate(d, i) ==
  IF i > Len(d) THEN [how |-> "short", bytes |-> <<>>, next |-> i]
  ELSE IF d[i] = EndOfStream THEN [how |-> "eof", bytes |-> <<>>, next |-> i + 1]
  ELSE IF d[i] = BadCode THEN [how |-> "error", bytes |-> <<>>, next |-> i]
  ELSE LET r == Inflate(d, i + 1)
       IN [how |-> r.how, bytes |-> <<d[i]>> \o r.bytes, next |-> r.next]

RECURSIVE LStripZero(_)
LStripZero(d) == IF d # <<>> /\ d[1] = 0 THEN LStripZero(Tail(d)) ELSE d

RECURSIVE gzip_decompress(_)
\* gzip.decompress(d): the exception it raises ("" if none) and the bytes of
\* all its members
gzip_decompress(d) ==
  IF d = <<>> THEN [exc |-> "", bytes |-> <<>>]
  ELSE IF Len(d) < 2 \/ SubSeq(d, 1, 2) # SubSeq(GzipHeader, 1, 2)
  THEN [exc |-> "BadGzipFile", bytes |-> <<>>]
  ELSE IF Len(d) < Len(GzipHeader) THEN [exc |-> "EOFError", bytes |-> <<>>]
  ELSE IF d[3] # GzipHeader[3] THEN [exc |-> "BadGzipFile", bytes |-> <<>>]
  ELSE LET r == Inflate(d, Len(GzipHeader) + 1)
           unused_data == SubSeq(d, r.next, Len(d))
       IN IF r.how = "error" THEN [exc |-> "zlib.error", bytes |-> <<>>]
          ELSE IF r.how = "short" \/ Len(unused_data) < 2
          THEN [exc |-> "EOFError", bytes |-> <<>>]
          ELSE IF unused_data[1] # Crc(r.bytes) \/ unused_data[2] # Len(r.bytes) % 256
          THEN [exc |-> "BadGzipFile", bytes |-> <<>>]
          ELSE LET rest == gzip_decompress(LStripZero(SubSeq(unused_data, 3, Len(unused_data))))
               IN IF rest.exc # "" THEN rest
                  ELSE [exc |-> "", bytes |-> r.bytes \o rest.bytes]

\* bytes.decode('utf-8'): the bytes below 128 are characters, and no other
\* byte of the payloads drawn below starts a well-formed sequence
Utf8Ok(b) == \A i \in 1..Len(b) : b[i] < 128

\* bytes.decode('utf-8', errors='ignore')
Utf8Ignore(b) == SelectSeq(b, LAMBDA x : x < 128)

(* ---------------- main and decode_level ---------------- *)
Chars(strs) == [i \in 1..Len(strs) |-> Ascii[strs[i]]]

TextChars == {Ascii["k"], Ascii["A"], Ascii["S"], Ascii["1"]}

Texts == UNION {[1..n -> TextChars] : n \in 0..MaxText}

\* a byte that is no character by itself
HighByte == 200

JunkChars == {Ascii["A"], Ascii["!"], Ascii["="], Ascii["-"]}

Prefixes(b) == {SubSeq(b, 1, n) : n \in 1..(Len(b) - 1)}

Corrupted(b) ==
  {[b EXCEPT ![i] = v] : i \in 1..Len(b), v \in {1, BadCode}} \ {b}

\* the payloads main can acquire: nothing, a plain text, a text compressed
\* and encoded (padded or not), a text only encoded, a compressed text cut
\* short or with a byte altered or followed by more bytes, compressed bytes
\* that are no text, and characters that are no encoding at all
Payloads ==
  {[kind |-> k, text |-> <<>>, raw |-> <<>>] : k \in {"none", "empty"}}
  \cup {[kind |-> "plain", text |-> t, raw |-> t] : t \in Texts \ {<<>>}}
  \cup {[kind |-> "gzip", text |-> t, raw |-> urlsafe_b64encode(gzip_compress(t))] :
          t \in Texts}
  \cup {[kind |-> "gzip_stripped", text |-> t,
         raw |-> StripPadding(urlsafe_b64encode(gzip_compress(t)))] : t \in Texts}
  \cup {[kind |-> "b64", text |-> t, raw |-> urlsafe_b64encode(t)] : t \in Texts \ {<<>>}}
  \cup UNION {{[kind |-> "truncated", text |-> t, raw |-> urlsafe_b64encode(p)] :
                 p \in Prefixes(gzip_compress(t))} : t \in Texts}
  \cup UNION {{[kind |-> "corrupt", text |-> t, raw |-> urlsafe_b64encode(c)] :
                 c \in Corrupted(gzip_compress(t))} : t \in Texts}
  \cup {[kind |-> "binary", text |-> t,
         raw |-> urlsafe_b64encode(gzip_compress(<<HighByte>> \o t))] : t \in Texts}
  \cup {[kind |-> "trailing", text |-> t,
         raw |-> urlsafe_b64encode(gzip_compress(t) \o <<v>>)] : t \in Texts, v \in {0, 1}}
  \cup {[kind |-> "junk", text |-> <<>>, raw |-> j] :
          j \in UNION {[1..n -> JunkChars] : n \in 1..MaxText}}

InitMain ==
  /\ pc = "off"
  /\ err = ""
  /\ current_gamemode = "unset"
  /\ current_speed = "unset"
  /\ n_segments = 0
  /\ portals = <<>>
  /\ max_x = 0
  /\ top_x = {}
  /\ mode_times = <<>>
  /\ speed_times = <<>>
  /\ current_x = 0
  /\ total_time = TimeZero
  /\ idx = 0
  /\ rendered = [modes |-> {}, speeds |-> {}]
  /\ level_objs = <<>>
  /\ p_pc = "off"
  /\ p_segs = <<>>
  /\ p_k = 0
  /\ p_i = 0
  /\ obj = <<>>
  /\ p_objs = <<>>
  /\ m_pc = "main"
  /\ \E p \in Payloads :
       /\ origin = [kind |-> p.kind, text |-> p.text]
       /\ raw_data = p.raw
  /\ decode_called = FALSE
  /\ data = <<>>
  /\ decoded = <<>>
  /\ d_exc = ""
  /\ result = [kind |-> "unset", text |-> <<>>]
  /\ analyzed = <<>>

\* s.startswith(prefix)
startswith(s, prefix) ==
  Len(s) >= Len(prefix) /\ SubSeq(s, 1, Len(prefix)) = prefix

\* mutant: only the prefix kS is recognised
LooksDecoded_kS(s) == startswith(s, Chars(<<"k", "S">>))

\* raw_data.startswith('kS') or raw_data.startswith('kA')
LooksDecoded(s) ==
  startswith(s, Chars(<<"k", "S">>)) \/ startswith(s, Chars(<<"k", "A">>))

\* if not raw_data: return, then the prefix check
MainCheck ==
  /\ m_pc = "main"
  /\ IF raw_data = <<>>
     THEN /\ m_pc' = "exit"
          /\ UNCHANGED <<decode_called, analyzed>>
     ELSE IF LooksDecoded(raw_data)
     THEN /\ analyzed' = Append(analyzed, raw_data)
          /\ m_pc' = "analyze"
          /\ UNCHANGED decode_called
     ELSE /\ decode_called' = TRUE
          /\ m_pc' = "decode_level"
          /\ UNCHANGED analyzed
  /\ UNCHANGED <<origin, raw_data, data, decoded, d_exc, result, avars, pvars>>

\* the alphabet and the padding of data are normalised
DecodeNormalize ==
  /\ m_pc = "decode_level"
  /\ data' = FixPadding(ReplaceUrlSafe(raw_data))
  /\ m_pc' = "b64decode"
  /\ UNCHANGED <<origin, raw_data, decode_called, decoded, d_exc, result, analyzed,
                 avars, pvars>>

\* decoded = base64.b64decode(data); its exception reaches the outer except
DecodeBase64 ==
  /\ m_pc = "b64decode"
  /\ LET r == b64decode(data)
     IN IF r.ok
        THEN /\ decoded' = r.bytes
             /\ m_pc' = "decompress"
             /\ UNCHANGED <<d_exc, result>>
        ELSE /\ d_exc' = "binascii.Error"
             /\ result' = [kind |-> "None", text |-> <<>>]
             /\ m_pc' = "decoded"
             /\ UNCHANGED decoded
  /\ UNCHANGED <<origin, raw_data, decode_called, data, analyzed, avars, pvars>>

\* except (gzip.BadGzipFile, ValueError): UnicodeDecodeError is a ValueError
CaughtInner == {"BadGzipFile", "UnicodeDecodeError"}

\* return gzip.decompress(decoded).decode('utf-8'), the inner except with its
\* fallback, and the outer except for every other exception
DecodeGunzip ==
  /\ m_pc = "decompress"
  /\ LET g == gzip_decompress(decoded)
         exc == IF g.exc # "" THEN g.exc
                ELSE IF Utf8Ok(g.bytes) THEN "" ELSE "UnicodeDecodeError"
     IN /\ d_exc' = exc
        /\ result' = IF exc = "" THEN [kind |-> "text", text |-> g.bytes]
                     ELSE IF exc \in CaughtInner
                     THEN [kind |-> "text", text |-> Utf8Ignore(decoded)]
                     ELSE [kind |-> "None", text |-> <<>>]
  /\ m_pc' = "decoded"
  /\ UNCHANGED <<origin, raw_data, decode_called, data, decoded, analyzed, avars, pvars>>

\* decoded = decode_level(raw_data); if decoded: analyze_level(decoded, ...)
MainAfterDecode ==
  /\ m_pc = "decoded"
  /\ IF result.kind = "text" /\ result.text # <<>>
     THEN /\ analyzed' = Append(analyzed, result.text)
          /\ m_pc' = "analyze"
     ELSE /\ m_pc' = "exit"
          /\ UNCHANGED analyzed
  /\ UNCHANGED <<origin, raw_data, decode_called, data, decoded, d_exc, result,
                 avars, pvars>>

NextMain ==
  MainCheck \/ DecodeNormalize \/ DecodeBase64 \/ DecodeGunzip \/ MainAfterDecode

SpecMain == InitMain /\ [][NextMain]_vars

(* ---------------- properties ---------------- *)
\* the accumulators exist: the portals are sorted and the end marker appended
AfterSort == idx > 0

RECURSIVE DistanceSum(_, _)
\* the distance a time stands for, over the rates rs
DistanceSum(t, rs) ==
  IF rs = {} THEN 0
  ELSE LET r == CHOOSE r \in rs : TRUE IN t[r] + DistanceSum(t, rs \ {r})

EndMarker == portals[Len(portals)]

\* C1: once the accumulators exist, total_time equals the sum of the
\* per-gamemode times and equals the sum of the per-speed times, after every
\* event and in the report.
C1_TimesPartitionTotal ==
  AfterSort =>
    /\ TimeSum(mode_times, DOMAIN mode_times) = total_time
    /\ TimeSum(speed_times, DOMAIN speed_times) = total_time

\* the report shows two gamemodes and two speeds with time
C1_Witness ==
  /\ pc = "done"
  /\ Cardinality(rendered.modes) >= 2
  /\ Cardinality(rendered.speeds) >= 2

\* C2: every event whose position exceeds the current position credits
\* (position - current position) / rate of the speed before the event to the
\* gamemode and to the speed in effect before the event, and to the total.
C2_SegmentCreditedToStateBefore ==
  [][ (pc = "integrate" /\ idx <= Len(portals) /\ FloatGT(portals[idx].x, current_x)) =>
        LET duration == Duration(portals[idx].x - current_x, SPEED_VALUES[current_speed])
            speed_key == SPEED_NAME_TO_PORTAL_NAME[current_speed]
        IN /\ current_gamemode \in DOMAIN mode_times
           /\ mode_times' = [mode_times EXCEPT ![current_gamemode] = TimeAdd(@, duration)]
           /\ speed_times' = [speed_times EXCEPT ![speed_key] = TimeAdd(@, duration)]
           /\ total_time' = TimeAdd(total_time, duration)
           /\ current_x' = portals[idx].x ]_vars

\* C3: the integration has no failure path: no lookup of an accumulator or of
\* a rate fails, whatever start gamemode and start speed the header seeds.
C3_IntegrationTotal ==
  /\ pc # "KeyError"
  /\ ~(pc = "ZeroDivisionError" /\ err = "distance / speed_val")

\* C4: no header value makes the analysis fail: a start code that is missing,
\* no number or outside the table falls back to the default.
C4_HeaderNeverFails ==
  ~(pc = "ValueError" /\ err \in {"kA2", "kA4", "kA22", "header[22]"})

\* the largest position over the records that carry both keys, 0 if none
MaxPosition == IF top_x = {} THEN 0 ELSE CHOOSE m \in top_x : TRUE

C6_ZeroLengthStillUpdates ==
  [][ (pc = "integrate" /\ idx <= Len(portals) /\ ~FloatGT(portals[idx].x, current_x)) =>
        /\ UNCHANGED <<mode_times, speed_times, total_time, current_x>>
        /\ pc' = "integrate"
        /\ idx' = idx + 1
        /\ portals[idx].type = "gamemode" => current_gamemode' = portals[idx].value
        /\ portals[idx].type = "speed" =>
             current_speed' = PORTAL_NAME_TO_SPEED_NAME[portals[idx].value]
        /\ portals[idx].type # "gamemode" => current_gamemode' = current_gamemode
        /\ portals[idx].type # "speed" => current_speed' = current_speed ]_vars

\* a gamemode portal at a position <= 0 and a speed portal at the same place
\* were applied without a segment, and the segment after them is credited to
\* the gamemode and the speed they set
C6_Witness ==
  /\ pc = "done"
  /\ Len(portals) = 3
  /\ portals[1].type = "gamemode" /\ ~FloatGT(portals[1].x, 0)
  /\ portals[2].type = "speed" /\ ~FloatGT(portals[2].x, 0)
  /\ max_x > 0
  /\ rendered = [modes |-> {portals[1].value}, speeds |-> {portals[2].value}]

\* C7: a record that carries key 1 and key 2 never aborts the analysis.
C7_ExtractionNeverAborts ==
  ~(pc = "ValueError" /\ err \in {"obj_id", "x_pos"})

\* C8: a level string of a header only completes without an error, with
\* total time 0, every accumulator 0 and no percentage computed.
C8_HeaderOnlyCompletes ==
  n_segments = 0 =>
    /\ pc \notin {"ValueError", "KeyError", "ZeroDivisionError"}
    /\ pc = "done" =>
         /\ TimeIsZero(total_time)
         /\ \A m \in DOMAIN mode_times : TimeIsZero(mode_times[m])
         /\ \A sp \in DOMAIN speed_times : TimeIsZero(speed_times[sp])
         /\ rendered = [modes |-> {}, speeds |-> {}]

\* C9: once seeded, the current speed is a key of SPEED_VALUES and its rate
\* is not zero, so no division by the rate fails.
C9_SpeedHasRate ==
  /\ pc \in {"objects", "integrate", "done"} =>
       /\ current_speed \in DOMAIN SPEED_VALUES
       /\ SPEED_VALUES[current_speed] # 0
  /\ err \notin {"SPEED_VALUES[current_speed]", "distance / speed_val"}

\* time was divided by the rate of a speed seeded by the header (3x comes
\* from the start table only) and by the rate of a speed set by a portal
C9_Witness ==
  /\ pc = "done"
  /\ rendered.speeds = {"3x", "0.5x"}
  /\ current_speed = "Slow"

\* C10: the events the integration consumes are in ascending order of
\* position, the end marker last, and the current position never decreases.
C10_EventsAscending ==
  /\ [](AfterSort =>
          \A i, j \in 1..Len(portals) :
             i < j => ~FloatLT(portals[j].x, portals[i].x))
  /\ [][current_x' >= current_x]_vars

\* the pairs of a segment whose key is an integer: pair j is the tokens 2j-1
\* and 2j, a token left over at the end is in no pair
IntPairs(parts) == {j \in 1..(Len(parts) \div 2) : IntOk(parts[2 * j - 1])}

\* the mapping a segment stands for: every pair with an integer key, the
\* last pair of a key winning
MappingOf(parts) ==
  [k \in {IntVal(parts[2 * j - 1]) : j \in IntPairs(parts)} |->
     LET js == {j \in IntPairs(parts) : IntVal(parts[2 * j - 1]) = k}
         last == CHOOSE j \in js : \A j2 \in js : j2 <= j
     IN parts[2 * last]]

\* C11: parse_object raises nothing; the dict of every segment holds exactly
\* the pairs of that segment whose key is an integer (an unpaired last token
\* and the pairs with another key are left out, the pairs after them are
\* kept), whatever the segments parsed before it were.
C11_ParseObjectRecovers ==
  /\ p_pc # "IndexError"
  /\ \A k \in 1..Len(p_objs) :
       /\ p_objs[k] = MappingOf(p_segs[k])
       /\ p_objs[k] = parse_object(p_segs[k])

\* a segment with a key that is no integer, a pair after it and an unpaired
\* last token was parsed, and then a well formed segment
C11_Witness ==
  /\ p_pc = "idle"
  /\ p_segs = << <<"abc", "2", "1", "47", "2">>, <<"1", "47", "2", "1">> >>
  /\ Len(p_objs) = 2
  /\ p_objs[1] = (1 :> "47")
  /\ p_objs[2] = (1 :> "47" @@ 2 :> "1")

\* the record of a segment lacks key 1 or key 2
LacksKey(parts) ==
  1 \notin DOMAIN MappingOf(parts) \/ 2 \notin DOMAIN MappingOf(parts)

\* the level without the records that lack a key
Kept(level) == SelectSeq(level, LAMBDA parts : ~LacksKey(parts))

RECURSIVE EventsOf(_)
\* the portal events of the records of a level, in the order of the level
EventsOf(level) ==
  IF level = <<>> THEN <<>>
  ELSE LET m == MappingOf(Head(level))
       IN PortalOf(IntVal(m[1]), FloatVal(m[2])) \o EventsOf(Tail(level))

RECURSIVE MaxOf(_)
\* max_x after the records of a level
MaxOf(level) ==
  IF level = <<>> THEN 0
  ELSE LET before == MaxOf(SubSeq(level, 1, Len(level) - 1))
           x_pos == FloatVal(MappingOf(level[Len(level)])[2])
       IN IF FloatGT(x_pos, before) THEN x_pos ELSE before

\* C12: a record that lacks key 1 or key 2 is passed over without an error:
\* no portal event, no change of the maximum position nor of anything else
\* the report is computed from; only the loop moves on.  The events and the
\* maximum position the report is computed from are those of the level
\* without such records.
C12_RecordWithoutKeyDropped ==
  /\ [](pc = "objects" /\ n_segments = Len(level_objs) =>
          /\ portals = EventsOf(Kept(level_objs))
          /\ max_x = MaxOf(Kept(level_objs)))
  /\ [][ (pc = "objects" /\ n_segments < Len(level_objs)
        /\ LacksKey(level_objs[n_segments + 1])) =>
        /\ pc' = "objects"
        /\ n_segments' = n_segments + 1
        /\ UNCHANGED <<err, current_gamemode, current_speed, portals, max_x, top_x,
                       mode_times, speed_times, current_x, total_time, idx, rendered>>
    ]_vars

\* the report of a level whose second record has a type id and no position:
\* the portal before it and the object after it count, the record does not
C12_Witness ==
  /\ pc = "done"
  /\ level_objs = << <<"1", "47", "2", "1">>, <<"1", "abc">>, <<"1", "1", "2", "2">> >>
  /\ Len(portals) = 2
  /\ max_x = 2
  /\ rendered.modes = {"Cube", "Ball"}

\* C13: once decode_level has returned, a payload whose base64 decoding
\* succeeded and whose decompression raised has given the decoded bytes as
\* text with the undecodable bytes dropped, and None was returned only when
\* the base64 decoding failed.
C13_DecompressionFailureFallsBack ==
  m_pc = "decoded" =>
    /\ (b64decode(data).ok /\ gzip_decompress(decoded).exc # ""
          => result = [kind |-> "text", text |-> Utf8Ignore(decoded)])
    /\ (result.kind = "None" => ~b64decode(data).ok)

\* C14: a payload with the prefix kS or kA is analysed as given and
\* decode_level is not called; any other payload is handed to decode_level
\* before main ends, and analyze_level is called at most once, with the text
\* decode_level returned, and not at all when nothing was acquired or
\* decode_level returned None.
C14_PrefixBypassesDecode ==
  LET prefixed == \/ startswith(raw_data, Chars(<<"k", "S">>))
                  \/ startswith(raw_data, Chars(<<"k", "A">>))
  IN /\ prefixed => ~decode_called /\ (m_pc # "main" => analyzed = <<raw_data>>)
     /\ raw_data # <<>> /\ ~prefixed /\ m_pc \in {"analyze", "exit"} => decode_called
     /\ ~prefixed /\ analyzed # <<>>
          => decode_called /\ result.kind = "text" /\ analyzed = <<result.text>>
     /\ raw_data = <<>> \/ result.kind = "None" => analyzed = <<>>

\* a payload with the prefix kA was analysed without decoding
C14_Witness ==
  /\ m_pc = "analyze"
  /\ startswith(raw_data, Chars(<<"k", "A">>))
  /\ ~decode_called
  /\ analyzed = <<raw_data>>

\* C15: when decode_level returns on the url-safe base64 encoding of a
\* compressed text s (the text the payload was made from), with its padding
\* or stripped of it, it returns s.
C15_RoundTrip ==
  m_pc = "decoded" =>
    LET s == origin.text
        encoded == urlsafe_b64encode(gzip_compress(s))
    IN raw_data \in {encoded, StripPadding(encoded)}
         => result = [kind |-> "text", text |-> s]

\* a text came back from an encoding that had lost its padding and that
\* holds a character of the url-safe alphabet
C15_Witness ==
  /\ m_pc = "decoded"
  /\ origin.kind = "gzip_stripped"
  /\ Len(raw_data) % 4 # 0
  /\ \E i \in 1..Len(raw_data) : raw_data[i] \in {Ascii["-"], Ascii["_"]}
  /\ origin.text # <<>>
  /\ result = [kind |-> "text", text |-> origin.text]

\* C16: the report divides an accumulator entry by total_time only when the
\* entry is greater than 0, and an entry greater than 0 implies a total_time
\* greater than 0, so the division by total_time never fails.
C16_DividesByPositiveTotal ==
  /\ \A k \in DOMAIN mode_times :
        TimePositive(mode_times[k]) => TimePositive(total_time)
  /\ \A k \in DOMAIN speed_times :
        TimePositive(speed_times[k]) => TimePositive(total_time)
  /\ pc = "done" =>
        /\ rendered.modes = {k \in DOMAIN mode_times : TimePositive(mode_times[k])}
        /\ rendered.speeds = {k \in DOMAIN speed_times : TimePositive(speed_times[k])}
  /\ err # "time / total_time"

\* the report of a level whose objects all lie at x <= 0: total_time is 0 and
\* nothing is divided
C16_Witness ==
  /\ pc = "done"
  /\ n_segments = 2
  /\ Len(portals) = 3
  /\ \A i \in 1..Len(portals) : portals[i].x \in {0 - 1, 0}
  /\ \E i \in 1..Len(portals) : portals[i].x = 0 - 1
  /\ TimeIsZero(total_time)
  /\ rendered = [modes |-> {}, speeds |-> {}]

\* the events of a list at the position x, in the order of the list
AtPosition(events, x) == SelectSeq(events, LAMBDA p : p.x = x)

TimeGE(t, u) == \A r \in Rates : t[r] >= u[r]

\* C18: a pass of the loop that changes total_time adds a duration greater
\* than 0 to it, no accumulator entry ever decreases or is negative, a portal
\* at x <= 0 adds no time, and as long as a portal at x <= 0 is still to be
\* applied no time has been accumulated.
C18_PositiveDurations ==
  /\ [][ pc = "integrate" =>
          /\ TimeGE(total_time', total_time)
          /\ total_time' # total_time => current_x' > current_x
          /\ \A k \in DOMAIN mode_times : TimeGE(mode_times'[k], mode_times[k])
          /\ \A k \in DOMAIN speed_times : TimeGE(speed_times'[k], speed_times[k])
          /\ (idx <= Len(portals) /\ portals[idx].x # NaN /\ portals[idx].x <= 0)
               => total_time' = total_time ]_vars
  /\ [](pc = "integrate" =>
          /\ TimeGE(total_time, TimeZero)
          /\ \A k \in DOMAIN mode_times : TimeGE(mode_times[k], TimeZero)
          /\ \A k \in DOMAIN speed_times : TimeGE(speed_times[k], TimeZero)
          /\ \A j \in idx..(Len(portals) - 1) :
                portals[j].x # NaN /\ portals[j].x <= 0 => TimeIsZero(total_time))

====
